---- MODULE Spec2Model ----
(***************************************************************************)
(* Yoom session state management (.yoom-session.md): the session file, its *)
(* markdown-with-embedded-JSON format, and the operations createSession,   *)
(* updateSession, completeCurrentStep, startNextFeature, loadSession,      *)
(* saveSession and deleteSession.                                          *)
(*                                                                         *)
(* Text is a sequence of tokens.  A token is a piece of text that holds no *)
(* newline and no code fence, except the three tokens NL, F and FJ.        *)
(***************************************************************************)
EXTENDS Integers, Sequences, FiniteSets, TLC

VARIABLES
  file,      \* the session file of cwd: [exists |-> FALSE] or its content
  readable,  \* whether the process may read the file (file permissions)
  clock,     \* the instant new Date() returns
  lastOp,    \* the operation that ran last
  ret,       \* what that operation returned
  arg,       \* the session handed to saveSession by its caller
  procs,     \* the processes that run updateSession side by side: where each
             \* one is in the function and what it holds in memory
  project,   \* the files of projectRoot that framework detection looks at
  commonDeductions  \* the array commonDeductions the rules module shares

vars == <<file, readable, clock, lastOp, ret, arg, procs, project, commonDeductions>>

-----------------------------------------------------------------------------
(* Bounds *)

MaxFeatures == 1      \* features of a session under arbitrary updates
MaxFlowFeatures == 2  \* features of a session in a plain run of the workflow
MaxNotes == 1
MaxClock == 1
MaxTextLen == 2       \* tokens of a free text in a session that is saved and loaded
MaxFiles == 4         \* files of a project root
MaxDriverFeatures == 3 \* features of a session the orchestrator drives to its end

-----------------------------------------------------------------------------
(* Text *)

NL == "\n"
F == "<fence>"         \* three backquotes
FJ == "<fence>json"    \* three backquotes and the word json
DATA == "@json"      \* the place of the output of JSON.stringify in a text
Undefined == "undefined"

RECURSIVE Join(_, _)
\* Array.prototype.join over texts
Join(texts, sep) ==
  IF texts = <<>> THEN <<>>
  ELSE IF Len(texts) = 1 THEN texts[1]
  ELSE texts[1] \o sep \o Join(Tail(texts), sep)

\* toISOString of the instant n: a text of one token; later instants sort later
ISO(n) == <<"T0", "T1", "T2", "T3", "T4", "T5", "T6", "T7">>[n + 1]
Instant(s) == CHOOSE n \in 0..7 : ISO(n) = s
Num(n) == <<"0", "1", "2", "3", "4", "5", "6", "7">>[n + 1]

\* string escaping of JSON: a newline inside a string is written as backslash n
Escape(text) == [i \in DOMAIN text |-> IF text[i] = NL THEN "\\n" ELSE text[i]]
Unescape(text) == [i \in DOMAIN text |-> IF text[i] = "\\n" THEN NL ELSE text[i]]

-----------------------------------------------------------------------------
(* types.ts *)

FEATURE_STEP_ORDER == <<"DEVELOP", "REVIEW", "TEST", "REFACTOR", "DOCUMENT", "COMMIT">>

\* Array.prototype.indexOf, 0-based, -1 when absent
indexOf(arr, x) ==
  IF \E i \in DOMAIN arr : arr[i] = x
  THEN (CHOOSE i \in DOMAIN arr : arr[i] = x /\ \A j \in 1..(i - 1) : arr[j] # x) - 1
  ELSE -1

includes(arr, x) == \E i \in DOMAIN arr : arr[i] = x

\* arr[i] of JavaScript, 0-based
At(arr, i) == arr[i + 1]

getNextStep(currentStep) ==
  LET currentIndex == indexOf(FEATURE_STEP_ORDER, currentStep)
  IN IF currentIndex = -1 \/ currentIndex = Len(FEATURE_STEP_ORDER) - 1
     THEN "null"
     ELSE At(FEATURE_STEP_ORDER, currentIndex + 1)

FullTail == <<"code-reviewer", "tester", "refactorer", "document-writer", "git-committer">>

FRAMEWORK_AGENTS ==
  [nextjs |-> [default |-> <<"yoom-bot", "frontend-engineer">>,
               fullMode |-> <<"yoom-bot", "frontend-engineer">> \o FullTail],
   rails |-> [default |-> <<"yoom-bot", "oracle">>,
              fullMode |-> <<"yoom-bot", "oracle">> \o FullTail],
   laravel |-> [default |-> <<"yoom-bot", "oracle">>,
                fullMode |-> <<"yoom-bot", "oracle">> \o FullTail],
   electron |-> [default |-> <<"yoom-bot", "frontend-engineer">>,
                 fullMode |-> <<"yoom-bot", "frontend-engineer">> \o FullTail],
   fastapi |-> [default |-> <<"yoom-bot", "oracle">>,
                fullMode |-> <<"yoom-bot", "oracle">> \o FullTail],
   tauri |-> [default |-> <<"yoom-bot", "frontend-engineer", "oracle">>,
              fullMode |-> <<"yoom-bot", "frontend-engineer", "oracle">> \o FullTail],
   automation |-> [default |-> <<"yoom-bot", "explore">>,
                   fullMode |-> <<"yoom-bot", "explore", "code-reviewer", "tester",
                                  "git-committer">>]]

\* names that FRAMEWORK_AGENTS, an object literal, inherits from
\* Object.prototype: FRAMEWORK_AGENTS[name] is then a value that is truthy and
\* has neither fullMode nor default
Inherited == {"constructor", "toString", "__proto__"}

\* an array a function returns, and the undefined it returns instead
Array(a) == [t |-> "array", v |-> a]
NoValue == [t |-> "undefined"]

getAgentsForFramework(framework, mode) ==
  IF framework \in Inherited THEN NoValue
  ELSE IF framework \notin DOMAIN FRAMEWORK_AGENTS
  THEN IF mode = "full"
       THEN Array(<<"yoom-bot", "code-reviewer", "tester", "git-committer">>)
       ELSE Array(<<"yoom-bot">>)
  ELSE IF mode = "full"
       THEN Array(FRAMEWORK_AGENTS[framework].fullMode)
       ELSE Array(FRAMEWORK_AGENTS[framework].default)

-----------------------------------------------------------------------------
(* Objects.  An object is a record; an optional property that was never set *)
(* is a key the record lacks, and a property set to undefined is a key     *)
(* whose value is Undefined.                                               *)

currentStepOf(feature) ==
  IF "currentStep" \in DOMAIN feature THEN feature.currentStep ELSE Undefined

Without(obj, key) == [k \in DOMAIN obj \ {key} |-> obj[k]]

\* JSON.stringify leaves out the properties whose value is undefined
stringifyFeature(feature) ==
  LET kept == IF currentStepOf(feature) = Undefined
              THEN Without(feature, "currentStep") ELSE feature
  IN [kept EXCEPT !.name = Escape(@),
                  !.description = Escape(@),
                  !.notes = [i \in DOMAIN @ |-> Escape(@[i])]]

parseFeature(json) ==
  [json EXCEPT !.name = Unescape(@),
               !.description = Unescape(@),
               !.notes = [i \in DOMAIN @ |-> Unescape(@[i])]]

EscapeAll(texts) == [i \in DOMAIN texts |-> Escape(texts[i])]
UnescapeAll(texts) == [i \in DOMAIN texts |-> Unescape(texts[i])]

stringifyDiscovery(d) ==
  [d EXCEPT !.techStack = EscapeAll(@), !.constraints = EscapeAll(@),
            !.requirements = EscapeAll(@)]

parseDiscovery(d) ==
  [d EXCEPT !.techStack = UnescapeAll(@), !.constraints = UnescapeAll(@),
            !.requirements = UnescapeAll(@)]

\* JSON.stringify(session, null, 2): a text without a newline followed by a fence
JSONstringify(session) ==
  LET s == [session EXCEPT !.features = [i \in DOMAIN @ |-> stringifyFeature(@[i])],
                           !.notes = EscapeAll(@)]
  IN IF "discovery" \in DOMAIN s
     THEN [s EXCEPT !.discovery = stringifyDiscovery(@)]
     ELSE s

JSONparseSession(json) ==
  LET s == [json EXCEPT !.features = [i \in DOMAIN @ |-> parseFeature(@[i])],
                        !.notes = UnescapeAll(@)]
  IN IF "discovery" \in DOMAIN s
     THEN [s EXCEPT !.discovery = parseDiscovery(@)]
     ELSE s

-----------------------------------------------------------------------------
(* session state: the file *)

SESSION_VERSION == "1.0.0"

NoFile == [exists |-> FALSE]

\* a file: its text, and the JSON text that stands at DATA in it (if any)
FileOf(text, data) == [exists |-> TRUE, text |-> text, data |-> data]

hasExistingSession == file.exists

Min(S) == CHOOSE a \in S : \A b \in S : a <= b

\* the places where FJ NL stands
opensOf(content) ==
  {i \in 1..(Len(content) - 1) : content[i] = FJ /\ content[i + 1] = NL}

\* the places after the FJ NL at i where NL and a fence stand (FJ begins with F)
closesOf(content, i) ==
  {j \in (i + 2)..(Len(content) - 1) : content[j] = NL /\ content[j + 1] \in {F, FJ}}

groupFrom(content, i, closes) ==
  IF closes = {} THEN [matched |-> FALSE, group |-> <<>>]
  ELSE [matched |-> TRUE, group |-> SubSeq(content, i + 2, Min(closes) - 1)]

matchFrom(content, opens) ==
  IF opens = {} THEN [matched |-> FALSE, group |-> <<>>]
  ELSE groupFrom(content, Min(opens), closesOf(content, Min(opens)))

\* content.match of the regular expression  FJ NL ([\s\S]*?) NL F : the
\* leftmost match and its lazy group.  When the first FJ NL has no NL F after
\* it, no later one has, so the match starts at the first FJ NL or nowhere.
jsonMatch(content) == matchFrom(content, opensOf(content))

RECURSIVE trim(_)
\* JSON.parse skips the white space around the value
trim(text) ==
  IF text = <<>> THEN text
  ELSE IF Head(text) = NL THEN trim(Tail(text))
  ELSE IF text[Len(text)] = NL THEN trim(SubSeq(text, 1, Len(text) - 1))
  ELSE text

Null == [t |-> "null"]
Session(s) == [t |-> "session", v |-> s]
Number0 == [t |-> "number"]
Void == [t |-> "void"]

\* a slip: no catch around JSON.parse, the error of a text that is no JSON
\* reaches the caller
parseSessionMarkdown_Throws(f) ==
  IF ~jsonMatch(f.text).matched THEN Null
  ELSE IF trim(jsonMatch(f.text).group) = <<DATA>> THEN Session(JSONparseSession(f.data))
  ELSE IF trim(jsonMatch(f.text).group) = <<"0">> THEN Number0
  ELSE [t |-> "error"]

\* parseSessionMarkdown: JSON.parse of the group; a text that is no JSON throws
\* and the catch returns null; the text 0 is JSON and parses to a number
parseSessionMarkdown(f) ==
  LET m == jsonMatch(f.text)
  IN IF ~m.matched THEN Null
     ELSE IF trim(m.group) = <<DATA>> THEN Session(JSONparseSession(f.data))
     ELSE IF trim(m.group) = <<"0">> THEN Number0
     ELSE Null

RECURSIVE featureLines(_, _, _)
\* the body of session.features.forEach in formatSessionMarkdown, from index on
featureLines(features, index, currentFeatureIndex) ==
  IF index >= Len(features) THEN <<>>
  ELSE
    LET feature == At(features, index)
        isCurrent == index = currentFeatureIndex
        statusIcon == IF feature.status = "completed" THEN "(done)"
                      ELSE IF feature.status = "in_progress" THEN "(busy)"
                      ELSE "(wait)"
        currentMarker == IF isCurrent THEN <<" <- CURRENT">> ELSE <<>>
        step == currentStepOf(feature)
        progress(st) ==
          <<"- ", (IF includes(feature.completedSteps, st) THEN "(done)"
                   ELSE IF step = st THEN "(busy)" ELSE "(todo)"), " ", st>>
    IN <<<<"### ", Num(index + 1), ". ">> \o feature.name \o currentMarker,
         <<>>,
         <<statusIcon, " **Status**: ", feature.status>>>>
       \o (IF step # Undefined THEN <<<<"(pin) **Current Step**: ", step>>>> ELSE <<>>)
       \o (IF feature.description # <<>>
           THEN <<<<"(memo) ">> \o feature.description>> ELSE <<>>)
       \o <<<<>>>>
       \o (IF Len(feature.completedSteps) > 0 \/ step # Undefined
           THEN <<<<"**Progress**:">>>>
                \o [i \in DOMAIN FEATURE_STEP_ORDER |-> progress(FEATURE_STEP_ORDER[i])]
                \o <<<<>>>>
           ELSE <<>>)
       \o (IF Len(feature.notes) > 0
           THEN <<<<"**Notes**:">>>>
                \o [i \in DOMAIN feature.notes |-> <<"- ">> \o feature.notes[i]]
                \o <<<<>>>>
           ELSE <<>>)
       \o featureLines(features, index + 1, currentFeatureIndex)

commaJoin(texts) == Join(texts, <<", ">>)
asTexts(names) == [i \in DOMAIN names |-> <<names[i]>>]

\* the lines formatSessionMarkdown pushes before the JSON data
humanLines(session) ==
  <<<<"# Yoom Session">>,
    <<>>,
    <<"> Created: ", session.createdAt>>,
    <<"> Last Activity: ", session.lastActivityAt>>,
    <<>>,
    <<"## Configuration">>,
    <<>>,
    <<"- **Project Type**: ", session.config.projectType>>,
    <<"- **Framework**: ", session.config.framework>>,
    <<"- **Mode**: ", session.config.mode>>,
    <<"- **Scope**: ", session.config.scope>>,
    <<"- **Agents**: ">> \o commaJoin(asTexts(session.config.agents)),
    <<>>>>
  \o (IF "discovery" \in DOMAIN session
      THEN LET d == session.discovery
           IN <<<<"## Discovery Results">>,
                <<>>,
                <<"- **Purpose**: ", d.purpose>>,
                <<"- **Tech Stack**: ">> \o commaJoin(d.techStack)>>
              \o (IF Len(d.constraints) > 0
                  THEN <<<<"- **Constraints**: ">> \o commaJoin(d.constraints)>>
                  ELSE <<>>)
              \o (IF Len(d.requirements) > 0
                  THEN <<<<"- **Requirements**:">>>>
                       \o [i \in DOMAIN d.requirements |-> <<"  - ">> \o d.requirements[i]]
                  ELSE <<>>)
              \o <<<<>>>>
      ELSE <<>>)
  \o <<<<"## Features">>, <<>>>>
  \o (IF Len(session.features) = 0
      THEN <<<<"_No features defined yet._">>>>
      ELSE featureLines(session.features, 0, session.currentFeatureIndex))
  \o (IF Len(session.notes) > 0
      THEN <<<<"## Session Notes">>, <<>>>>
           \o [i \in DOMAIN session.notes |-> <<"- ">> \o session.notes[i]]
           \o <<<<>>>>
      ELSE <<>>)

MARKER == "<!-- Session Data (DO NOT EDIT) -->"

\* the lines of the JSON data block
dataLines == <<<<"---">>, <<>>, <<MARKER>>, <<FJ>>, <<DATA>>, <<F>>>>

formatSessionMarkdown(session) ==
  FileOf(Join(humanLines(session) \o dataLines, <<NL>>), JSONstringify(session))

\* loadSession on the file f: null when the file is missing; a failed read is
\* caught and gives null as well
loadFrom(f, canRead) ==
  IF ~f.exists THEN Null
  ELSE IF ~canRead THEN Null
  ELSE parseSessionMarkdown(f)

loadSession == loadFrom(file, readable)

\* the file saveSession writes
saveSession(session) == formatSessionMarkdown(session)

-----------------------------------------------------------------------------
(* The operations, as functions of the file and the clock.  Each gives the  *)
(* file it leaves and what it returns.                                     *)

now == ISO(clock)

Outcome(f, r) == [file |-> f, ret |-> r]

\* a value of JavaScript that is a session and truthy
truthy(loaded) == loaded.t = "session"

NextjsFull == [projectType |-> "new", framework |-> "nextjs", mode |-> "full"]

\* what a call that throws leaves behind: the file as it was, no return value
Thrown == [t |-> "throws"]

\* a slip: a directory that holds a session keeps it, createSession returns it
createSession_KeepsExisting(options) ==
  LET session == [version |-> SESSION_VERSION,
                  createdAt |-> now,
                  lastActivityAt |-> now,
                  config |-> [projectType |-> options.projectType,
                              framework |-> options.framework,
                              mode |-> options.mode,
                              agents |-> IF "agents" \in DOMAIN options
                                         THEN options.agents
                                         ELSE getAgentsForFramework(options.framework,
                                                                    options.mode).v,
                              scope |-> IF "scope" \in DOMAIN options
                                        THEN options.scope ELSE "all"],
                  features |-> <<>>,
                  currentFeatureIndex |-> -1,
                  notes |-> <<>>]
  IN IF truthy(loadSession) THEN Outcome(file, loadSession)
     ELSE Outcome(saveSession(session), Session(session))

\* createSession; with agents undefined, formatSessionMarkdown throws a
\* TypeError at session.config.agents.join before anything is written
createSession(options) ==
  LET agents == IF "agents" \in DOMAIN options THEN Array(options.agents)
                ELSE getAgentsForFramework(options.framework, options.mode)
      session == [version |-> SESSION_VERSION,
                  createdAt |-> now,
                  lastActivityAt |-> now,
                  config |-> [projectType |-> options.projectType,
                              framework |-> options.framework,
                              mode |-> options.mode,
                              agents |-> agents.v,
                              scope |-> IF "scope" \in DOMAIN options
                                        THEN options.scope ELSE "all"],
                  features |-> <<>>,
                  currentFeatureIndex |-> -1,
                  notes |-> <<>>]
  IN IF agents = NoValue THEN Outcome(file, Thrown)
     ELSE Outcome(saveSession(session), Session(session))

\* session.features[index] exists
hasFeature(session, index) == index >= 0 /\ index < Len(session.features)

\* Object.assign(target, source): the keys of source win
assign(target, source) == source @@ target

\* a slip: every feature that is added becomes the current one
applyUpdates_AlwaysCurrent(session, updates) ==
  LET s0 == [session EXCEPT !.lastActivityAt = now]
      s1 == IF "addFeature" \in DOMAIN updates
            THEN LET feature == assign(updates.addFeature,
                                       [completedSteps |-> <<>>,
                                        createdAt |-> now,
                                        updatedAt |-> now])
                     pushed == Append(s0.features, feature)
                 IN [s0 EXCEPT !.features = pushed,
                               !.currentFeatureIndex =
                                  Len(pushed) - 1]
            ELSE s0
      s2 == IF /\ "updateFeatureIndex" \in DOMAIN updates
               /\ "featureUpdate" \in DOMAIN updates
               /\ hasFeature(s1, updates.updateFeatureIndex)
            THEN [s1 EXCEPT !.features[updates.updateFeatureIndex + 1] =
                    assign(assign(@, updates.featureUpdate), [updatedAt |-> now])]
            ELSE s1
      s3 == IF "setCurrentFeature" \in DOMAIN updates
            THEN [s2 EXCEPT !.currentFeatureIndex = updates.setCurrentFeature]
            ELSE s2
      s4 == IF "addNote" \in DOMAIN updates /\ updates.addNote # <<>>
            THEN [s3 EXCEPT !.notes = Append(@, <<"[", now, "] ">> \o updates.addNote)]
            ELSE s3
      s5 == IF "discovery" \in DOMAIN updates
            THEN assign(s4, [discovery |-> updates.discovery])
            ELSE s4
  IN Outcome(saveSession(s5), Session(s5))

\* the body of updateSession once the session is loaded
applyUpdates(session, updates) ==
  LET s0 == [session EXCEPT !.lastActivityAt = now]
      s1 == IF "addFeature" \in DOMAIN updates
            THEN LET feature == assign(updates.addFeature,
                                       [completedSteps |-> <<>>,
                                        createdAt |-> now,
                                        updatedAt |-> now])
                     pushed == Append(s0.features, feature)
                 IN [s0 EXCEPT !.features = pushed,
                               !.currentFeatureIndex =
                                  IF Len(pushed) = 1 THEN 0 ELSE @]
            ELSE s0
      s2 == IF /\ "updateFeatureIndex" \in DOMAIN updates
               /\ "featureUpdate" \in DOMAIN updates
               /\ hasFeature(s1, updates.updateFeatureIndex)
            THEN [s1 EXCEPT !.features[updates.updateFeatureIndex + 1] =
                    assign(assign(@, updates.featureUpdate), [updatedAt |-> now])]
            ELSE s1
      s3 == IF "setCurrentFeature" \in DOMAIN updates
            THEN [s2 EXCEPT !.currentFeatureIndex = updates.setCurrentFeature]
            ELSE s2
      s4 == IF "addNote" \in DOMAIN updates /\ updates.addNote # <<>>
            THEN [s3 EXCEPT !.notes = Append(@, <<"[", now, "] ">> \o updates.addNote)]
            ELSE s3
      s5 == IF "discovery" \in DOMAIN updates
            THEN assign(s4, [discovery |-> updates.discovery])
            ELSE s4
  IN Outcome(saveSession(s5), Session(s5))

\* a slip: an update without a session starts one
updateSession_Creates(loaded, updates) ==
  IF ~truthy(loaded) THEN applyUpdates(createSession(NextjsFull).ret.v, updates)
  ELSE applyUpdates(loaded.v, updates)

\* loaded is what loadSession(cwd) returned at the first line of the operation
updateSession(loaded, updates) ==
  IF ~truthy(loaded) THEN Outcome(file, Null)
  ELSE applyUpdates(loaded.v, updates)

StepResult(session, nextStep) ==
  [t |-> "step", v |-> session, nextStep |-> nextStep,
   featureCompleted |-> (nextStep = "null")]

\* a slip in the bound of the index: the step before the last counts as the last
nextStepOf_ShortOrder(currentStep) ==
  LET currentIndex == indexOf(FEATURE_STEP_ORDER, currentStep)
  IN IF currentIndex < Len(FEATURE_STEP_ORDER) - 2
     THEN At(FEATURE_STEP_ORDER, currentIndex + 1)
     ELSE "null"

\* the step completeCurrentStep moves to: FEATURE_STEP_ORDER.indexOf, then the
\* entry after it unless the index is the last one
nextStepOf(currentStep) ==
  LET currentIndex == indexOf(FEATURE_STEP_ORDER, currentStep)
  IN IF currentIndex < Len(FEATURE_STEP_ORDER) - 1
     THEN At(FEATURE_STEP_ORDER, currentIndex + 1)
     ELSE "null"

\* a slip: the completed feature keeps its last step as currentStep
moveOn_KeepsStep(feature, nextStep) ==
  IF nextStep # "null"
  THEN [feature EXCEPT !.currentStep = nextStep]
  ELSE [feature EXCEPT !.status = "completed"]

\* the feature takes the next step, or is completed when there is none
moveOn(feature, nextStep) ==
  IF nextStep # "null"
  THEN [feature EXCEPT !.currentStep = nextStep]
  ELSE [feature EXCEPT !.status = "completed", !.currentStep = Undefined]

\* a slip: the step is completed without a new lastActivityAt
completeStep_StaleActivity(session, index) ==
  LET feature == At(session.features, index)
      step == feature.currentStep
      done == IF ~includes(feature.completedSteps, step)
              THEN Append(feature.completedSteps, step)
              ELSE feature.completedSteps
      nextStep == nextStepOf(step)
      f1 == [feature EXCEPT !.completedSteps = done, !.updatedAt = now]
      s1 == [session EXCEPT !.features[index + 1] = moveOn(f1, nextStep)]
  IN Outcome(saveSession(s1), StepResult(s1, nextStep))

\* the body of completeCurrentStep once the feature is known to have a step
completeStep(session, index) ==
  LET feature == At(session.features, index)
      step == feature.currentStep
      done == IF ~includes(feature.completedSteps, step)
              THEN Append(feature.completedSteps, step)
              ELSE feature.completedSteps
      nextStep == nextStepOf(step)
      f1 == [feature EXCEPT !.completedSteps = done, !.updatedAt = now]
      s1 == [session EXCEPT !.lastActivityAt = now,
                            !.features[index + 1] = moveOn(f1, nextStep)]
  IN Outcome(saveSession(s1), StepResult(s1, nextStep))

completeCurrentStep(loaded) ==
  IF ~truthy(loaded) THEN Outcome(file, Null)
  ELSE LET session == loaded.v
           index == session.currentFeatureIndex
       IN IF ~hasFeature(session, index) THEN Outcome(file, Null)
          ELSE IF currentStepOf(At(session.features, index)) = Undefined
          THEN Outcome(file, Null)
          ELSE completeStep(session, index)

\* a slip: the next feature is taken whatever its status
findNextPending_AnyStatus(session) ==
  LET found == {i \in 0..(Len(session.features) - 1) :
                  i > session.currentFeatureIndex}
  IN IF found = {} THEN -1
     ELSE CHOOSE i \in found : \A j \in found : i <= j

\* features.findIndex((f, i) => i > currentFeatureIndex && f.status === pending)
findNextPending(session) ==
  LET found == {i \in 0..(Len(session.features) - 1) :
                  /\ i > session.currentFeatureIndex
                  /\ At(session.features, i).status = "pending"}
  IN IF found = {} THEN -1
     ELSE CHOOSE i \in found : \A j \in found : i <= j

\* a slip: starting a feature stamps the session as created now
startNextFeature_Restamps(loaded) ==
     IF ~truthy(loaded) THEN Outcome(file, Null)
     ELSE
       LET session == loaded.v
           nextIndex == findNextPending(session)
       IN IF nextIndex = -1 THEN Outcome(file, Null)
          ELSE
            LET feature == assign(At(session.features, nextIndex),
                                  [status |-> "in_progress",
                                   currentStep |-> "DEVELOP",
                                   updatedAt |-> now])
                s1 == [session EXCEPT !.lastActivityAt = now, !.createdAt = now,
                                      !.currentFeatureIndex = nextIndex,
                                      !.features[nextIndex + 1] = feature]
            IN Outcome(saveSession(s1), Session(s1))

startNextFeature(loaded) ==
     IF ~truthy(loaded) THEN Outcome(file, Null)
     ELSE
       LET session == loaded.v
           nextIndex == findNextPending(session)
       IN IF nextIndex = -1 THEN Outcome(file, Null)
          ELSE
            LET feature == assign(At(session.features, nextIndex),
                                  [status |-> "in_progress",
                                   currentStep |-> "DEVELOP",
                                   updatedAt |-> now])
                s1 == [session EXCEPT !.lastActivityAt = now,
                                      !.currentFeatureIndex = nextIndex,
                                      !.features[nextIndex + 1] = feature]
            IN Outcome(saveSession(s1), Session(s1))

-----------------------------------------------------------------------------
(* Inputs *)

Plain == <<"Auth">>
\* a text that holds a fenced block around the JSON text 0
Fenced == <<FJ, NL, "0", NL, F>>

CreateOptions ==
  {NextjsFull,
   [projectType |-> "existing", framework |-> "django", mode |-> "custom",
    agents |-> <<"yoom-bot", "oracle">>, scope |-> "backend"]}

\* values for addFeature: Omit<YoomFeature, createdAt | updatedAt | completedSteps>
NewFeatures ==
  {[name |-> Plain, description |-> <<"Login">>, status |-> "pending", notes |-> <<>>],
   [name |-> Plain, description |-> <<>>, status |-> "in_progress",
    currentStep |-> "DEVELOP", notes |-> <<<<"wip">>>>],
   [name |-> Plain, description |-> <<>>, status |-> "completed", notes |-> <<>>],
   [name |-> Plain, description |-> <<>>, status |-> "in_progress",
    currentStep |-> "DESIGN", notes |-> <<>>],
   [name |-> Fenced, description |-> <<>>, status |-> "pending", notes |-> <<>>]}

\* values for featureUpdate: Partial<YoomFeature>
FeatureUpdates ==
  {[status |-> "in_progress"],
   [completedSteps |-> <<"COMMIT">>],
   [notes |-> <<>>]}

Discoveries ==
  {[purpose |-> "learning", techStack |-> <<<<"ts">>>>, constraints |-> <<>>,
    requirements |-> <<<<"fast">>, <<"small">>>>]}

FeatureIndexes == -1..MaxFeatures

\* values for updates: UpdateSessionOptions
Updates ==
  {[addFeature |-> f] : f \in NewFeatures}
  \cup {[updateFeatureIndex |-> i, featureUpdate |-> u] :
          i \in FeatureIndexes, u \in FeatureUpdates}
  \cup {[setCurrentFeature |-> i] : i \in FeatureIndexes}
  \cup {[addNote |-> Fenced]}
  \cup {[addNote |-> Plain, discovery |-> d] : d \in Discoveries}
  \cup {[addFeature |-> f, setCurrentFeature |-> -1, addNote |-> Plain] :
          f \in {g \in NewFeatures : g.status = "pending" /\ g.name = Plain}}

\* the updates of a plain run: a pending feature, a note
BasicUpdates ==
  {[addFeature |-> f] : f \in {g \in NewFeatures : g.status = "pending" /\ g.name = Plain}}
  \cup {[addNote |-> Plain], [setCurrentFeature |-> -1]}

\* the calls the bounds admit: the lists stay within MaxFeatures and MaxNotes
withinBounds(loaded, updates, maxFeatures) ==
     truthy(loaded) =>
       /\ "addFeature" \in DOMAIN updates => Len(loaded.v.features) < maxFeatures
       /\ "addNote" \in DOMAIN updates => Len(loaded.v.notes) < MaxNotes

\* files damaged by hand: no JSON block at all, a block that is no JSON, and
\* the present file without its closing fence
Damaged ==
  {[exists |-> TRUE, text |-> <<"# Yoom Session", NL, "notes">>],
   [exists |-> TRUE, text |-> <<"# Yoom Session", NL, FJ, NL, "{broken", NL, F>>]}
  \cup (IF file.exists /\ Len(file.text) > 0 /\ file.text[Len(file.text)] = F
        THEN {[file EXCEPT !.text = SubSeq(@, 1, Len(@) - 1)]}
        ELSE {})

-----------------------------------------------------------------------------
(* Actions *)

NoArg == <<>>

\* the deductions common.ts lists
CommonCatalog ==
  <<[code |-> "PURE-1", points |-> 10], [code |-> "PURE-2", points |-> 8],
    [code |-> "PURE-3", points |-> 7], [code |-> "UNI-1", points |-> 15],
    [code |-> "UNI-2", points |-> 10], [code |-> "DECL-1", points |-> 8],
    [code |-> "DECL-2", points |-> 5], [code |-> "DECL-3", points |-> 7],
    [code |-> "DECL-4", points |-> 5], [code |-> "DEBUG-1", points |-> 10],
    [code |-> "DEBUG-2", points |-> 5], [code |-> "STRUCT-1", points |-> 3],
    [code |-> "STRUCT-2", points |-> 4], [code |-> "STRUCT-3", points |-> 3]>>

\* a project root without any file
EmptyProject == [files |-> {}, contents |-> <<>>]

\* the processes, each before its call of updateSession
Procs == {"p1", "p2"}
Idle == [p \in Procs |-> [pc |-> "start"]]

Init ==
  /\ file = NoFile
  /\ readable = TRUE
  /\ clock = 0
  /\ lastOp = "init"
  /\ ret = Null
  /\ arg = NoArg
  /\ procs = Idle
  /\ project = EmptyProject
  /\ commonDeductions = CommonCatalog

Apply(op, outcome) ==
  /\ file' = outcome.file
  /\ ret' = outcome.ret
  /\ lastOp' = op
  /\ UNCHANGED <<readable, clock, arg, procs, project, commonDeductions>>

Tick ==
  /\ clock < MaxClock
  /\ clock' = clock + 1
  /\ UNCHANGED <<file, readable, lastOp, ret, arg, procs, project, commonDeductions>>

CreateSessionWith(inputs) ==
  \E options \in inputs : Apply("createSession", createSession(options))

CreateSession == CreateSessionWith({NextjsFull})

UpdateSessionWith(inputs, maxFeatures) ==
  \E loaded \in {loadSession} :
    \E updates \in inputs :
      /\ withinBounds(loaded, updates, maxFeatures)
      /\ Apply("updateSession", updateSession(loaded, updates))

UpdateSession == UpdateSessionWith(Updates, MaxFeatures)

CompleteCurrentStep ==
  \E loaded \in {loadSession} : Apply("completeCurrentStep", completeCurrentStep(loaded))

StartNextFeature ==
  \E loaded \in {loadSession} : Apply("startNextFeature", startNextFeature(loaded))

LoadSession == Apply("loadSession", Outcome(file, loadSession))

DeleteSession == Apply("deleteSession", Outcome(NoFile, Void))

\* the owner of the file changes its permissions
Chmod ==
  /\ file.exists
  /\ readable' = ~readable
  /\ lastOp' = "chmod"
  /\ ret' = Void
  /\ UNCHANGED <<file, clock, arg, procs, project, commonDeductions>>

\* somebody edits the file by hand and damages it
Damage ==
  /\ \E f \in Damaged : file' = f
  /\ lastOp' = "damage"
  /\ ret' = Void
  /\ UNCHANGED <<readable, clock, arg, procs, project, commonDeductions>>

\* The session operations with every kind of update
Next ==
  \/ Tick
  \/ CreateSession
  \/ UpdateSession
  \/ CompleteCurrentStep
  \/ StartNextFeature

Spec == Init /\ [][Next]_vars

\* A plain run of the workflow: features are added pending, started and
\* taken through their steps
UpdateSessionFlow == UpdateSessionWith(BasicUpdates, MaxFlowFeatures)

NextFlow ==
  \/ Tick
  \/ CreateSession
  \/ UpdateSessionFlow
  \/ CompleteCurrentStep
  \/ StartNextFeature

SpecFlow == Init /\ [][NextFlow]_vars

\* The operations on a file that may be missing, unreadable or damaged
UpdateSessionBasic == UpdateSessionWith(BasicUpdates, MaxFeatures)

CreateSessionAny == CreateSessionWith(CreateOptions)

NextFiles ==
  \/ CreateSessionAny
  \/ UpdateSessionBasic
  \/ CompleteCurrentStep
  \/ StartNextFeature
  \/ LoadSession
  \/ DeleteSession
  \/ Chmod
  \/ Damage

SpecFiles == Init /\ [][NextFiles]_vars

\* Features of every kind added one after the other
AddUpdates == {[addFeature |-> f] : f \in NewFeatures} \cup {[setCurrentFeature |-> -1]}

UpdateSessionAdd == UpdateSessionWith(AddUpdates, MaxFlowFeatures)

NextAdd ==
  \/ Tick
  \/ CreateSession
  \/ UpdateSessionAdd
  \/ CompleteCurrentStep
  \/ StartNextFeature

SpecAdd == Init /\ [][NextAdd]_vars

\* createSession with every kind of options: the registered frameworks, a
\* name that is not registered, names an object inherits; agents and scope
\* given or left out
Frameworks == DOMAIN FRAMEWORK_AGENTS \cup {"django"} \cup Inherited

EveryCreateOptions ==
  LET base == {[projectType |-> "new", framework |-> f, mode |-> m] :
                 f \in Frameworks, m \in {"full", "custom"}}
  IN base
     \cup {b @@ [agents |-> <<"oracle">>] : b \in base}
     \cup {b @@ [scope |-> "backend"] : b \in base}
     \cup {b @@ [agents |-> <<>>, scope |-> "src/api"] : b \in base}

CreateSessionOf ==
  \E options \in EveryCreateOptions :
    /\ file' = createSession(options).file
    /\ ret' = createSession(options).ret
    /\ lastOp' = "createSession"
    /\ arg' = options
    /\ UNCHANGED <<readable, clock, procs, project, commonDeductions>>

NextCreate ==
  \/ Tick
  \/ CreateSessionOf
  \/ LoadSession
  \/ DeleteSession

SpecCreate == Init /\ [][NextCreate]_vars

\* Two processes, each in one call of updateSession on the same file.  A
\* process can be suspended between readFileSync and writeFileSync; nothing
\* locks the file.
RaceUpdates(p) ==
  {[addNote |-> <<p>>],
   [addFeature |-> [name |-> <<p>>, description |-> <<"Login">>,
                    status |-> "pending", notes |-> <<>>]]}

InitRace ==
  /\ readable = TRUE
  /\ clock = 0
  /\ file = createSession(NextjsFull).file
  /\ lastOp = "createSession"
  /\ ret = createSession(NextjsFull).ret
  /\ arg = NoArg
  /\ procs = Idle
  /\ project = EmptyProject
  /\ commonDeductions = CommonCatalog

\* process p loads the file and changes the session in memory; before holds
\* the processes that had saved by then
RaceLoad(p) ==
  /\ procs[p].pc = "start"
  /\ \E updates \in RaceUpdates(p), loaded \in {loadSession} :
       procs' = [procs EXCEPT ![p] =
                   IF truthy(loaded)
                   THEN [pc |-> "loaded",
                         before |-> {q \in Procs : procs[q].pc = "done"},
                         outcome |-> applyUpdates(loaded.v, updates)]
                   ELSE [pc |-> "done",
                         before |-> {q \in Procs : procs[q].pc = "done"},
                         outcome |-> Outcome(file, Null)]]
  /\ UNCHANGED <<file, readable, clock, lastOp, ret, arg, project, commonDeductions>>

\* a slip: the save reads the file again and keeps the notes and features it
\* finds there next to the ones the process holds
RaceSave_Merges(p) ==
  /\ procs[p].pc = "loaded"
  /\ \E l \in {loadSession} :
       file' = saveSession(
                 [l.v EXCEPT !.notes = procs[p].outcome.ret.v.notes \o
                                         SelectSeq(l.v.notes,
                                           LAMBDA n : ~includes(procs[p].outcome.ret.v.notes, n)),
                             !.features = procs[p].outcome.ret.v.features \o
                                         SelectSeq(l.v.features,
                                           LAMBDA f : ~includes(procs[p].outcome.ret.v.features, f))])
  /\ ret' = procs[p].outcome.ret
  /\ lastOp' = "updateSession"
  /\ arg' = p
  /\ procs' = [procs EXCEPT ![p].pc = "done"]
  /\ UNCHANGED <<readable, clock, project, commonDeductions>>

\* process p writes the session it holds and returns
RaceSave(p) ==
  /\ procs[p].pc = "loaded"
  /\ file' = procs[p].outcome.file
  /\ ret' = procs[p].outcome.ret
  /\ lastOp' = "updateSession"
  /\ arg' = p
  /\ procs' = [procs EXCEPT ![p].pc = "done"]
  /\ UNCHANGED <<readable, clock, project, commonDeductions>>

NextRace ==
  \/ Tick
  \/ \E p \in Procs : RaceLoad(p)
  \/ \E p \in Procs : RaceSave(p)

SpecRace == InitRace /\ [][NextRace]_vars

-----------------------------------------------------------------------------
(* Framework detection and rule loading.  A project root is the set of its  *)
(* paths and the contents of the manifests among them.                      *)

\* nextjsDeductions, railsDeductions, laravelDeductions, electronDeductions,
\* fastapiDeductions, tauriDeductions, automationDeductions
FRAMEWORK_DEDUCTIONS ==
  [nextjs |->
     <<[code |-> "NEXT-1", points |-> 8],
       [code |-> "NEXT-2", points |-> 10],
       [code |-> "NEXT-3", points |-> 5],
       [code |-> "NEXT-4", points |-> 5],
       [code |-> "NEXT-5", points |-> 7],
       [code |-> "NEXT-6", points |-> 5]>>,
   rails |->
     <<[code |-> "RAILS-1", points |-> 10],
       [code |-> "RAILS-2", points |-> 8],
       [code |-> "RAILS-3", points |-> 7],
       [code |-> "RAILS-4", points |-> 5],
       [code |-> "RAILS-5", points |-> 6],
       [code |-> "RAILS-6", points |-> 5]>>,
   laravel |->
     <<[code |-> "LARAVEL-1", points |-> 10],
       [code |-> "LARAVEL-2", points |-> 7],
       [code |-> "LARAVEL-3", points |-> 5],
       [code |-> "LARAVEL-4", points |-> 6],
       [code |-> "LARAVEL-5", points |-> 7],
       [code |-> "LARAVEL-6", points |-> 10]>>,
   electron |->
     <<[code |-> "ELECTRON-1", points |-> 15],
       [code |-> "ELECTRON-2", points |-> 15],
       [code |-> "ELECTRON-3", points |-> 10],
       [code |-> "ELECTRON-4", points |-> 10],
       [code |-> "ELECTRON-5", points |-> 8],
       [code |-> "ELECTRON-6", points |-> 7]>>,
   fastapi |->
     <<[code |-> "FASTAPI-1", points |-> 10],
       [code |-> "FASTAPI-2", points |-> 6],
       [code |-> "FASTAPI-3", points |-> 7],
       [code |-> "FASTAPI-4", points |-> 8],
       [code |-> "FASTAPI-5", points |-> 5],
       [code |-> "FASTAPI-6", points |-> 5]>>,
   tauri |->
     <<[code |-> "TAURI-1", points |-> 15],
       [code |-> "TAURI-2", points |-> 10],
       [code |-> "TAURI-3", points |-> 10],
       [code |-> "TAURI-4", points |-> 8],
       [code |-> "TAURI-5", points |-> 7],
       [code |-> "TAURI-6", points |-> 5]>>,
   automation |->
     <<[code |-> "AUTO-1", points |-> 8],
       [code |-> "AUTO-2", points |-> 7],
       [code |-> "AUTO-3", points |-> 10],
       [code |-> "AUTO-4", points |-> 5],
       [code |-> "AUTO-5", points |-> 5],
       [code |-> "AUTO-6", points |-> 6]>>]

FullRoster(head) == head \o FullTail

\* the detection lists and agents of nextjsConfig, railsConfig, laravelConfig,
\* electronConfig, fastapiConfig, tauriConfig and automationConfig
FRAMEWORK_CONFIGS ==
  [nextjs |->
     [name |-> "nextjs",
      rules |-> "nextjs rules",
      deductions |-> FRAMEWORK_DEDUCTIONS.nextjs,
      detection |-> <<"next.config.js", "next.config.mjs", "next.config.ts",
                      "app/layout.tsx", "app/page.tsx">>,
      agents |-> [default |-> <<"yoom-bot", "frontend-engineer">>,
                  fullMode |-> FullRoster(<<"yoom-bot", "frontend-engineer">>)]],
   rails |->
     [name |-> "rails",
      rules |-> "rails rules",
      deductions |-> FRAMEWORK_DEDUCTIONS.rails,
      detection |-> <<"Gemfile", "config/routes.rb",
                      "app/controllers/application_controller.rb",
                      "config/application.rb">>,
      agents |-> [default |-> <<"yoom-bot", "oracle">>,
                  fullMode |-> FullRoster(<<"yoom-bot", "oracle">>)]],
   laravel |->
     [name |-> "laravel",
      rules |-> "laravel rules",
      deductions |-> FRAMEWORK_DEDUCTIONS.laravel,
      detection |-> <<"composer.json", "artisan", "app/Http/Kernel.php",
                      "bootstrap/app.php">>,
      agents |-> [default |-> <<"yoom-bot", "oracle">>,
                  fullMode |-> FullRoster(<<"yoom-bot", "oracle">>)]],
   electron |->
     [name |-> "electron",
      rules |-> "electron rules",
      deductions |-> FRAMEWORK_DEDUCTIONS.electron,
      detection |-> <<"electron-builder.json", "electron-builder.yml",
                      "electron.vite.config.ts", "src/main/index.ts",
                      "src/preload/index.ts">>,
      agents |-> [default |-> <<"yoom-bot", "frontend-engineer">>,
                  fullMode |-> FullRoster(<<"yoom-bot", "frontend-engineer">>)]],
   fastapi |->
     [name |-> "fastapi",
      rules |-> "fastapi rules",
      deductions |-> FRAMEWORK_DEDUCTIONS.fastapi,
      detection |-> <<"requirements.txt", "pyproject.toml", "app/main.py", "main.py">>,
      agents |-> [default |-> <<"yoom-bot", "oracle">>,
                  fullMode |-> FullRoster(<<"yoom-bot", "oracle">>)]],
   tauri |->
     [name |-> "tauri",
      rules |-> "tauri rules",
      deductions |-> FRAMEWORK_DEDUCTIONS.tauri,
      detection |-> <<"src-tauri/tauri.conf.json", "src-tauri/Cargo.toml",
                      "tauri.conf.json">>,
      agents |-> [default |-> <<"yoom-bot", "frontend-engineer", "oracle">>,
                  fullMode |-> FullRoster(<<"yoom-bot", "frontend-engineer", "oracle">>)]],
   automation |->
     [name |-> "automation",
      rules |-> "automation rules",
      deductions |-> FRAMEWORK_DEDUCTIONS.automation,
      detection |-> <<"bin/", "cli.ts", "cli.js", "scripts/">>,
      agents |-> [default |-> <<"yoom-bot", "explore">>,
                  fullMode |-> <<"yoom-bot", "explore", "code-reviewer", "tester",
                                 "git-committer">>]]]

\* a slip: the generic frameworks are tried before the specific ones
DETECTION_ORDER_GenericFirst ==
  <<"automation", "fastapi", "rails", "laravel", "nextjs", "electron", "tauri">>

DETECTION_ORDER ==
  <<"tauri", "electron", "nextjs", "laravel", "rails", "fastapi", "automation">>

fileExists(projectRoot, relativePath) == relativePath \in projectRoot.files

\* obj[key]?.[name] is truthy; a manifest lists its packages as a set
lists(obj, key, name) == key \in DOMAIN obj /\ name \in obj[key]

\* a slip: the catch answers true
hasDependency_CatchTrue(projectRoot, depName) ==
  IF ~fileExists(projectRoot, "package.json") THEN FALSE
  ELSE IF ~projectRoot.contents["package.json"].json THEN TRUE
  ELSE \/ lists(projectRoot.contents["package.json"], "dependencies", depName)
       \/ lists(projectRoot.contents["package.json"], "devDependencies", depName)

\* a manifest that is no JSON makes JSON.parse throw; the catch gives false
hasDependency(projectRoot, depName) ==
  IF ~fileExists(projectRoot, "package.json") THEN FALSE
  ELSE IF ~projectRoot.contents["package.json"].json THEN FALSE
  ELSE \/ lists(projectRoot.contents["package.json"], "dependencies", depName)
       \/ lists(projectRoot.contents["package.json"], "devDependencies", depName)

hasComposerPackage(projectRoot, packageName) ==
  IF ~fileExists(projectRoot, "composer.json") THEN FALSE
  ELSE IF ~projectRoot.contents["composer.json"].json THEN FALSE
  ELSE \/ lists(projectRoot.contents["composer.json"], "require", packageName)
       \/ lists(projectRoot.contents["composer.json"], "require-dev", packageName)

\* String.toLowerCase on the words of the model
toLowerCase(word) ==
  CASE word = "FastAPI" -> "fastapi"
    [] word = "Flask" -> "flask"
    [] OTHER -> word

\* requirements.txt is the sequence of its words
hasPythonPackage(projectRoot, packageName) ==
  IF ~fileExists(projectRoot, "requirements.txt") THEN FALSE
  ELSE \E i \in DOMAIN projectRoot.contents["requirements.txt"].words :
         toLowerCase(projectRoot.contents["requirements.txt"].words[i])
           = toLowerCase(packageName)

FRAMEWORK_DETECTORS(frameworkName, root) ==
  CASE frameworkName = "nextjs" ->
         \/ fileExists(root, "next.config.js")
         \/ fileExists(root, "next.config.mjs")
         \/ fileExists(root, "next.config.ts")
         \/ (fileExists(root, "app/layout.tsx") /\ hasDependency(root, "next"))
    [] frameworkName = "electron" ->
         \/ fileExists(root, "electron-builder.json")
         \/ fileExists(root, "electron-builder.yml")
         \/ fileExists(root, "electron.vite.config.ts")
         \/ hasDependency(root, "electron")
    [] frameworkName = "tauri" ->
         \/ fileExists(root, "src-tauri/tauri.conf.json")
         \/ fileExists(root, "src-tauri/Cargo.toml")
    [] frameworkName = "rails" ->
         /\ fileExists(root, "Gemfile")
         /\ fileExists(root, "config/routes.rb")
         /\ fileExists(root, "app/controllers/application_controller.rb")
    [] frameworkName = "laravel" ->
         /\ fileExists(root, "artisan")
         /\ fileExists(root, "composer.json")
         /\ hasComposerPackage(root, "laravel/framework")
    [] frameworkName = "fastapi" ->
         /\ fileExists(root, "requirements.txt") \/ fileExists(root, "pyproject.toml")
         /\ hasPythonPackage(root, "fastapi") \/ fileExists(root, "app/main.py")
    [] frameworkName = "automation" ->
         \/ fileExists(root, "bin/")
         \/ fileExists(root, "cli.ts")
         \/ fileExists(root, "cli.js")
         \/ fileExists(root, "scripts/")

\* the patterns of config.detection that exist, in the order of the list
matchedOf(projectRoot, detection) ==
  SelectSeq(detection, LAMBDA pattern : fileExists(projectRoot, pattern))

\* confidence in tenths: 10 is 1.0, 8 is 0.8
Found(config, matchedFiles) ==
  [framework |-> config.name,
   confidence |-> IF Len(matchedFiles) >= 2 THEN 10 ELSE 8,
   matchedFiles |-> matchedFiles]

NotFound == [framework |-> "null", confidence |-> 0, matchedFiles |-> <<>>]

RECURSIVE detectFrom(_, _)
\* the loop of detectFramework from the i-th name of DETECTION_ORDER on
detectFrom(projectRoot, i) ==
  IF i > Len(DETECTION_ORDER) THEN NotFound
  ELSE IF FRAMEWORK_DETECTORS(DETECTION_ORDER[i], projectRoot)
  THEN Found(FRAMEWORK_CONFIGS[DETECTION_ORDER[i]],
             matchedOf(projectRoot, FRAMEWORK_CONFIGS[DETECTION_ORDER[i]].detection))
  ELSE detectFrom(projectRoot, i + 1)

detectFramework(projectRoot) == detectFrom(projectRoot, 1)

\* the paths detection looks at
Paths ==
  {"package.json"} \cup
  UNION {{FRAMEWORK_CONFIGS[n].detection[i] : i \in DOMAIN FRAMEWORK_CONFIGS[n].detection} :
           n \in DOMAIN FRAMEWORK_CONFIGS}

NoJSON == [json |-> FALSE]

\* what a file of the project can hold
ContentsOf(path) ==
  CASE path = "package.json" ->
         {NoJSON,
          [json |-> TRUE],
          [json |-> TRUE, dependencies |-> {"next"}, devDependencies |-> {"electron"}],
          [json |-> TRUE, devDependencies |-> {"next"}]}
    [] path = "composer.json" ->
         {NoJSON,
          [json |-> TRUE, require |-> {"php"}],
          [json |-> TRUE, require |-> {"laravel/framework"}]}
    [] path = "requirements.txt" ->
         {[words |-> <<>>], [words |-> <<"Flask", "FastAPI">>]}
    [] OTHER -> {[words |-> <<>>]}

Manifests == {"package.json", "composer.json", "requirements.txt"}

\* somebody adds a file to the project
WriteFile ==
  /\ Cardinality(project.files) < MaxFiles
  /\ \E path \in Paths \ project.files :
       \E content \in ContentsOf(path) :
         project' = [files |-> project.files \cup {path},
                     contents |-> IF path \in Manifests
                                  THEN (path :> content) @@ project.contents
                                  ELSE project.contents]
  /\ lastOp' = "writeFile"
  /\ ret' = Void
  /\ UNCHANGED <<file, readable, clock, arg, procs, commonDeductions>>

DetectFramework ==
  /\ ret' = detectFramework(project)
  /\ lastOp' = "detectFramework"
  /\ UNCHANGED <<file, readable, clock, arg, procs, project, commonDeductions>>

NextDetect ==
  \/ WriteFile
  \/ DetectFramework

SpecDetect == Init /\ [][NextDetect]_vars

\* what a call of the rules module leaves: the shared array and its result
Leaves(shared, result) == [shared |-> shared, result |-> result]

\* a slip: deductions is the shared array itself, not a copy of it
combineRules_Aliases(framework, agents, fullMode) ==
  LET deductions == IF framework # "null"
                    THEN commonDeductions \o FRAMEWORK_CONFIGS[framework].deductions
                    ELSE commonDeductions
      activeAgents == IF agents # Null THEN agents.v
                      ELSE IF framework = "null"
                      THEN <<"yoom-bot", "code-reviewer", "tester", "git-committer">>
                      ELSE IF fullMode THEN FRAMEWORK_CONFIGS[framework].agents.fullMode
                      ELSE FRAMEWORK_CONFIGS[framework].agents.default
  IN Leaves(deductions,
            [common |-> "commonRules",
             framework |-> IF framework # "null"
                           THEN FRAMEWORK_CONFIGS[framework].rules ELSE "",
             deductions |-> deductions,
             agents |-> activeAgents])

\* combineRules; framework is the name of the config or "null", agents an
\* array or null.  deductions is a copy of commonDeductions.
combineRules(framework, agents, fullMode) ==
  LET copy == commonDeductions
      deductions == IF framework # "null"
                    THEN copy \o FRAMEWORK_CONFIGS[framework].deductions
                    ELSE copy
      activeAgents == IF framework # "null"
                      THEN IF agents # Null THEN agents.v
                           ELSE IF fullMode
                           THEN FRAMEWORK_CONFIGS[framework].agents.fullMode
                           ELSE FRAMEWORK_CONFIGS[framework].agents.default
                      ELSE IF agents # Null THEN agents.v
                           ELSE <<"yoom-bot", "code-reviewer", "tester", "git-committer">>
  IN Leaves(commonDeductions,
            [common |-> "commonRules",
             framework |-> IF framework # "null"
                           THEN FRAMEWORK_CONFIGS[framework].rules ELSE "",
             deductions |-> deductions,
             agents |-> activeAgents])

RECURSIVE reduce(_, _)
\* deductions.reduce((sum, d) => sum + d.points, sum)
reduce(deductions, sum) ==
  IF deductions = <<>> THEN sum
  ELSE reduce(Tail(deductions), sum + Head(deductions).points)

getTotalDeductionPoints(framework) ==
  LET total == reduce(commonDeductions, 0)
  IN IF framework # "null"
     THEN reduce(FRAMEWORK_CONFIGS[framework].deductions, total)
     ELSE total

\* the arguments of combineRules; agents and fullMode can be left out
RulesArgs ==
  LET base == {[framework |-> f] : f \in DOMAIN FRAMEWORK_CONFIGS \cup {"null"}}
      withAgents == base \cup {b @@ [agents |-> a] : b \in base,
                                 a \in {Null, Array(<<>>), Array(<<"oracle">>)}}
  IN withAgents \cup {b @@ [fullMode |-> m] : b \in withAgents, m \in BOOLEAN}

\* the default values of the parameters agents and fullMode
agentsOf(args) == IF "agents" \in DOMAIN args THEN args.agents ELSE Null
fullModeOf(args) == IF "fullMode" \in DOMAIN args THEN args.fullMode ELSE TRUE

CombineRules ==
  \E args \in RulesArgs :
    /\ ret' = combineRules(args.framework, agentsOf(args), fullModeOf(args)).result
    /\ commonDeductions' =
         combineRules(args.framework, agentsOf(args), fullModeOf(args)).shared
    /\ lastOp' = "combineRules"
    /\ arg' = args
    /\ UNCHANGED <<file, readable, clock, procs, project>>

GetTotalDeductionPoints ==
  \E framework \in DOMAIN FRAMEWORK_CONFIGS \cup {"null"} :
    /\ ret' = getTotalDeductionPoints(framework)
    /\ lastOp' = "getTotalDeductionPoints"
    /\ arg' = [framework |-> framework]
    /\ UNCHANGED <<file, readable, clock, procs, project, commonDeductions>>

\* FRAMEWORK_CONFIGS[name] ?? null: the name of the config, "null" for a name
\* that is not registered, and for a name the object literal inherits a value
\* that is neither null nor a config
getFrameworkConfig(name) ==
  IF name \in DOMAIN FRAMEWORK_CONFIGS THEN name
  ELSE IF name \in Inherited THEN "inherited"
  ELSE "null"

GetAgentsForFramework ==
  \E framework \in Frameworks, mode \in {"full", "custom"} :
    /\ ret' = getAgentsForFramework(framework, mode)
    /\ lastOp' = "getAgentsForFramework"
    /\ arg' = [framework |-> framework, mode |-> mode]
    /\ UNCHANGED <<file, readable, clock, procs, project, commonDeductions>>

NextRules ==
  \/ CombineRules
  \/ GetTotalDeductionPoints
  \/ GetAgentsForFramework

SpecRules == Init /\ [][NextRules]_vars

-----------------------------------------------------------------------------
(* Saving and loading a session the caller built, and edits by hand of the *)
(* part of the file above the marker                                       *)

Alphabet == {"a", NL, F, FJ}

RECURSIVE TextsUpTo(_)
TextsUpTo(n) ==
  IF n = 0 THEN {<<>>}
  ELSE LET shorter == TextsUpTo(n - 1)
       IN shorter \cup {Append(t, c) : t \in shorter, c \in Alphabet}

FreeTexts == TextsUpTo(MaxTextLen)

Places == {"name", "description", "featureNote", "sessionNote", "requirement"}

\* a valid session with one feature under way
BuiltFeature ==
  [name |-> Plain, description |-> <<"Login">>, status |-> "in_progress",
   currentStep |-> "DEVELOP", completedSteps |-> <<>>, notes |-> <<>>,
   createdAt |-> ISO(0), updatedAt |-> ISO(0)]

BuiltSession ==
  [version |-> SESSION_VERSION, createdAt |-> ISO(0), lastActivityAt |-> ISO(0),
   config |-> [projectType |-> "new", framework |-> "nextjs", mode |-> "custom",
               agents |-> getAgentsForFramework("nextjs", "custom").v, scope |-> "all"],
   features |-> <<BuiltFeature>>, currentFeatureIndex |-> 0, notes |-> <<>>]

\* the same session with the free text at one place
SessionWith(text, place) ==
  CASE place = "name" -> [BuiltSession EXCEPT !.features[1].name = text]
    [] place = "description" -> [BuiltSession EXCEPT !.features[1].description = text]
    [] place = "featureNote" -> [BuiltSession EXCEPT !.features[1].notes = <<text>>]
    [] place = "sessionNote" -> [BuiltSession EXCEPT !.notes = <<text>>]
    [] place = "requirement" ->
         assign(BuiltSession,
                [discovery |-> [purpose |-> "learning", techStack |-> <<>>,
                                constraints |-> <<>>, requirements |-> <<text>>]])

BuiltSessions == {SessionWith(t, p) : t \in FreeTexts, p \in Places}

InitSave ==
  /\ file = NoFile
  /\ readable = TRUE
  /\ clock = 0
  /\ lastOp = "init"
  /\ ret = Null
  /\ arg \in BuiltSessions
  /\ procs = Idle
  /\ project = EmptyProject
  /\ commonDeductions = CommonCatalog

\* saveSession(cwd, arg)
SaveSession ==
  /\ lastOp = "init"
  /\ file' = saveSession(arg)
  /\ lastOp' = "saveSession"
  /\ ret' = Void
  /\ UNCHANGED <<readable, clock, arg, procs, project, commonDeductions>>

\* saveSession(cwd, s) with the session s that loadSession just returned
SaveLoaded ==
  /\ lastOp = "loadSession"
  /\ ret.t = "session"
  /\ file' = saveSession(ret.v)
  /\ lastOp' = "saveLoaded"
  /\ ret' = Void
  /\ UNCHANGED <<readable, clock, arg, procs, project, commonDeductions>>

\* the place of the marker line in a text
markerAt(text) == CHOOSE i \in DOMAIN text : text[i] = MARKER

insertAt(text, at, piece) ==
  SubSeq(text, 1, at) \o piece \o SubSeq(text, at + 1, Len(text))

deleteAt(text, at) == SubSeq(text, 1, at - 1) \o SubSeq(text, at + 1, Len(text))

\* what a hand may type: a word, a fenced json block, an opening fence
Pieces == {<<"a">>, <<FJ, NL, "0", NL, F, NL>>, <<FJ, NL>>}

\* one edit of the text above the marker: a piece typed in, or a token deleted
HandEdit ==
  /\ lastOp = "saveSession"
  /\ \E at \in 0..(markerAt(file.text) - 1) :
       \/ \E piece \in Pieces : file' = [file EXCEPT !.text = insertAt(@, at, piece)]
       \/ at > 0 /\ file' = [file EXCEPT !.text = deleteAt(@, at)]
  /\ lastOp' = "handEdit"
  /\ UNCHANGED <<readable, clock, ret, arg, procs, project, commonDeductions>>

\* loadSession(cwd) of the file as saved or as edited
LoadSaved ==
  /\ lastOp \in {"saveSession", "handEdit", "saveLoaded"}
  /\ LoadSession

NextSave ==
  \/ SaveSession
  \/ HandEdit
  \/ LoadSaved
  \/ SaveLoaded

SpecSave == InitSave /\ [][NextSave]_vars

-----------------------------------------------------------------------------
(* The workflow driven to its end: the orchestrator of yoomSkill adds the   *)
(* features of the project pending and then takes them, one after the other, *)
(* through their steps, until all features are complete.                    *)

\* the features the orchestrator adds: pending, with a plain name
PendingFeatures == {g \in NewFeatures : g.status = "pending" /\ g.name = Plain}

\* updateSession(cwd, { addFeature }) of a pending feature
AddFeature ==
  UpdateSessionWith({[addFeature |-> f] : f \in PendingFeatures}, MaxDriverFeatures)

\* the current feature of the loaded session is on a step
onAStep(loaded) ==
  /\ truthy(loaded)
  /\ hasFeature(loaded.v, loaded.v.currentFeatureIndex)
  /\ currentStepOf(At(loaded.v.features, loaded.v.currentFeatureIndex)) # Undefined

\* one turn of the orchestrator: startNextFeature when the current feature
\* has no currentStep, completeCurrentStep otherwise
Drive ==
  /\ file.exists
  /\ \E loaded \in {loadSession} :
       /\ truthy(loaded)
       /\ Len(loaded.v.features) >= 1
       /\ IF onAStep(loaded)
          THEN Apply("completeCurrentStep", completeCurrentStep(loaded))
          ELSE Apply("startNextFeature", startNextFeature(loaded))

\* createSession(cwd, options) in a directory that holds no session yet
CreateOnce ==
  /\ ~file.exists
  /\ CreateSession

NextDriver ==
  \/ Tick
  \/ CreateOnce
  \/ AddFeature
  \/ Drive

\* the orchestrator does not stop while a turn of it changes something
SpecDriver == Init /\ [][NextDriver]_vars /\ WF_vars(Drive)

\* The two workflow operations in any order on a session whose features
\* were all added pending
NextSteps ==
  \/ Tick
  \/ CreateOnce
  \/ AddFeature
  \/ StartNextFeature
  \/ CompleteCurrentStep

SpecSteps == Init /\ [][NextSteps]_vars

\* A session created again: createSession(cwd, options), with other options,
\* in a directory whose session has features and notes
Recreated == CHOOSE options \in CreateOptions : options # NextjsFull

CreateAgain ==
  /\ \E loaded \in {loadSession} :
       /\ truthy(loaded)
       /\ Len(loaded.v.features) >= 1
       /\ Len(loaded.v.notes) >= 1
  /\ CreateSessionWith({Recreated})

NextOverwrite ==
  \/ Tick
  \/ CreateOnce
  \/ UpdateSessionFlow
  \/ StartNextFeature
  \/ CompleteCurrentStep
  \/ CreateAgain

SpecOverwrite == Init /\ [][NextOverwrite]_vars

-----------------------------------------------------------------------------
(* Properties of the operations *)

\* l is what loadSession returns: it is a session with a feature at
\* currentFeatureIndex, and that feature
hasCurrent(l) == truthy(l) /\ hasFeature(l.v, l.v.currentFeatureIndex)
current(l) == At(l.v.features, l.v.currentFeatureIndex)

firstSteps(k) == SubSeq(FEATURE_STEP_ORDER, 1, k)
LastStep == Len(FEATURE_STEP_ORDER)

\* C1: in a session with exactly one feature, which is pending and is the
\* feature at currentFeatureIndex 0 (a new session after one addFeature), a call
\* of startNextFeature returns a session and leaves the feature in_progress at
\* step DEVELOP.
C1_SoleFeatureCanStart ==
  [][(lastOp' = "startNextFeature" /\ StartNextFeature) =>
       \A before \in {loadSession}, after \in {loadFrom(file', readable')} :
         (/\ truthy(before)
          /\ Len(before.v.features) = 1
          /\ before.v.currentFeatureIndex = 0
          /\ before.v.features[1].status = "pending")
         => /\ ret'.t = "session"
            /\ truthy(after)
            /\ after.v.features[1].status = "in_progress"
            /\ currentStepOf(after.v.features[1]) = "DEVELOP"]_vars

\* the current feature is in_progress at step k of the order, the steps before
\* it completed in order
onStep(l, k) ==
  /\ hasCurrent(l)
  /\ current(l).status = "in_progress"
  /\ currentStepOf(current(l)) = FEATURE_STEP_ORDER[k]
  /\ current(l).completedSteps = firstSteps(k - 1)

\* C2: from a current feature in_progress at DEVELOP with no completed step,
\* the calls of completeCurrentStep return nextStep REVIEW, TEST, REFACTOR,
\* DOCUMENT, COMMIT and null in turn, featureCompleted only with the null; each
\* call adds its step to completedSteps, and the sixth leaves the feature
\* completed, without currentStep, completedSteps the whole order.
C2_SixStepsInOrder ==
  [][(lastOp' = "completeCurrentStep" /\ CompleteCurrentStep) =>
       \A before \in {loadSession}, after \in {loadFrom(file', readable')} :
         \A k \in DOMAIN FEATURE_STEP_ORDER :
           onStep(before, k)
           => /\ ret'.t = "step"
              /\ ret'.nextStep = (IF k < LastStep THEN FEATURE_STEP_ORDER[k + 1]
                                  ELSE "null")
              /\ ret'.featureCompleted = (k = LastStep)
              /\ hasCurrent(after)
              /\ after.v.currentFeatureIndex = before.v.currentFeatureIndex
              /\ current(after).completedSteps = firstSteps(k)
              /\ IF k < LastStep
                 THEN onStep(after, k + 1)
                 ELSE /\ current(after).status = "completed"
                      /\ "currentStep" \notin DOMAIN current(after)]_vars

\* the sixth call has returned: the feature went through the whole order
C2_Witness ==
  /\ lastOp = "completeCurrentStep"
  /\ ret.t = "step"
  /\ ret.featureCompleted
  /\ ret.nextStep = "null"
  /\ \E l \in {loadSession} :
       /\ hasCurrent(l)
       /\ current(l).status = "completed"
       /\ current(l).completedSteps = FEATURE_STEP_ORDER

\* the features that both sessions hold
kept(before, after) == 1..(IF Len(before.features) < Len(after.features)
                           THEN Len(before.features) ELSE Len(after.features))

\* C3: over every operation, a step in the completedSteps of a feature stays in
\* them, and after the operation no feature has a currentStep that is among
\* its completedSteps.
C3_StepMonotonicity ==
  [][\A before \in {loadSession}, after \in {loadFrom(file', readable')} :
       /\ truthy(after) =>
            \A i \in DOMAIN after.v.features :
              ~includes(after.v.features[i].completedSteps,
                        currentStepOf(after.v.features[i]))
       /\ (truthy(before) /\ truthy(after) /\ lastOp' # "createSession") =>
            \A i \in kept(before.v, after.v) :
              \A st \in DOMAIN before.v.features[i].completedSteps :
                includes(after.v.features[i].completedSteps,
                         before.v.features[i].completedSteps[st])]_vars

\* the call that completed the current feature has returned, or a later call
\* of completeCurrentStep has
terminal(l) ==
  /\ lastOp = "completeCurrentStep"
  /\ hasCurrent(l)
  /\ current(l).status = "completed"
  /\ ret.t = "step" => ret.featureCompleted

C5_RoundTrip ==
  /\ (lastOp = "loadSession" /\ file = saveSession(arg)) => ret = Session(arg)
  /\ lastOp = "saveLoaded" => file = saveSession(arg)

\* the file is the saved file of arg with its text above the marker changed
editedAbove(f) ==
  /\ f.exists
  /\ f.data = JSONstringify(arg)
  /\ \E m \in DOMAIN f.text :
       /\ f.text[m] = MARKER
       /\ SubSeq(f.text, m, Len(f.text)) = <<MARKER, NL, FJ, NL, DATA, NL, F>>

\* C6: an edit of the part of a saved file above the marker does not change
\* what loadSession returns.
C6_OnlyTheBlockCounts ==
  (lastOp = "loadSession" /\ editedAbove(file))
  => ret = loadFrom(saveSession(arg), TRUE)

\* C7: without a session file updateSession, completeCurrentStep and
\* startNextFeature return null and write nothing: there is still no file and
\* loadSession still returns null.
C7_NoImplicitCreate ==
  [][(/\ lastOp' \in {"updateSession", "completeCurrentStep", "startNextFeature"}
      /\ ~file.exists
      /\ UpdateSessionBasic \/ CompleteCurrentStep \/ StartNextFeature)
     => /\ ret' = Null
        /\ ~file'.exists
        /\ loadFrom(file', readable') = Null]_vars

\* a mutating call has returned while there is no file
C7_Witness ==
  /\ ~file.exists
  /\ lastOp \in {"updateSession", "completeCurrentStep", "startNextFeature"}
  /\ ret = Null

noPending(l) ==
  truthy(l) /\ \A i \in DOMAIN l.v.features : l.v.features[i].status # "pending"

\* C8: startNextFeature on a session without a pending feature returns null
\* and leaves the file as it is.
C8_NothingToStart ==
  [][(lastOp' = "startNextFeature" /\ StartNextFeature /\ noPending(loadSession))
     => (ret' = Null /\ file' = file)]_vars

\* startNextFeature has returned null on a session whose features, one of them
\* after currentFeatureIndex, are all completed
C8_Witness ==
  /\ lastOp = "startNextFeature"
  /\ ret = Null
  /\ \E l \in {loadSession} :
       /\ truthy(l)
       /\ Len(l.v.features) > l.v.currentFeatureIndex + 1
       /\ \A i \in DOMAIN l.v.features : l.v.features[i].status = "completed"

\* C9: a call on a file that exists and cannot be read does not return null.
C9_ReadFailureIsAnError ==
  (/\ lastOp \in {"loadSession", "updateSession", "completeCurrentStep",
                  "startNextFeature"}
   /\ file.exists
   /\ ~readable)
  => ret # Null

\* the file holds no JSON block, or a block that is no JSON
isDamaged(f) ==
  /\ f.exists
  /\ \/ ~includes(f.text, DATA)
     \/ f.text[Len(f.text)] # F

\* C10: on a file without a JSON block or with a block that is no JSON,
\* loadSession returns null as for a missing file; updateSession,
\* completeCurrentStep and startNextFeature return null and leave the file as
\* it is; createSession replaces it with a file that loads as the new session.
C10_DamagedFileIsNoSession ==
  [][(isDamaged(file) /\ readable) =>
       /\ loadSession = loadFrom(NoFile, readable)
       /\ (lastOp' = "loadSession" /\ LoadSession) => ret' = Null
       /\ (/\ lastOp' \in {"updateSession", "completeCurrentStep", "startNextFeature"}
           /\ UpdateSessionBasic \/ CompleteCurrentStep \/ StartNextFeature)
          => (ret' = Null /\ file' = file)
       /\ (lastOp' = "createSession" /\ CreateSessionAny)
          => /\ ret'.t = "session"
             /\ loadFrom(file', readable') = ret']_vars

\* a mutating call has returned null on a damaged file
C10_Witness ==
  /\ isDamaged(file)
  /\ readable
  /\ lastOp \in {"updateSession", "completeCurrentStep", "startNextFeature"}
  /\ ret = Null

\* C11: the persisted currentFeatureIndex is -1 or an index of features.
C11_CurrentIndexInRange ==
  \A l \in {loadSession} :
    truthy(l) =>
      \/ l.v.currentFeatureIndex = -1
      \/ /\ 0 <= l.v.currentFeatureIndex
         /\ l.v.currentFeatureIndex < Len(l.v.features)

\* C12: every persisted feature with status completed has no currentStep and
\* has all six steps of the order in completedSteps.
C12_CompletedHasAllSteps ==
  \A l \in {loadSession} :
    truthy(l) =>
      \A i \in DOMAIN l.v.features :
        l.v.features[i].status = "completed" =>
          /\ currentStepOf(l.v.features[i]) = Undefined
          /\ \A k \in DOMAIN FEATURE_STEP_ORDER :
               includes(l.v.features[i].completedSteps, FEATURE_STEP_ORDER[k])

\* the roster the registry gives for a framework and a mode, the minimal one
\* for a name that is not registered
rosterFor(framework, mode) ==
  IF framework \in DOMAIN FRAMEWORK_AGENTS
  THEN IF mode = "full" THEN FRAMEWORK_AGENTS[framework].fullMode
       ELSE FRAMEWORK_AGENTS[framework].default
  ELSE IF mode = "full"
       THEN <<"yoom-bot", "code-reviewer", "tester", "git-committer">>
       ELSE <<"yoom-bot">>

\* C13: createSession does not raise, whatever the framework name; it returns
\* and persists a session without features or notes, currentFeatureIndex -1,
\* scope all unless one is given, and the agents given or else the roster of
\* the framework and mode (the minimal one for a name that is not registered).
C13_CreateSession ==
  lastOp = "createSession" /\ arg # NoArg =>
    /\ ret.t = "session"
    /\ ret.v.features = <<>>
    /\ ret.v.currentFeatureIndex = -1
    /\ ret.v.notes = <<>>
    /\ ret.v.config.scope = (IF "scope" \in DOMAIN arg THEN arg.scope ELSE "all")
    /\ ret.v.config.agents = (IF "agents" \in DOMAIN arg THEN arg.agents
                              ELSE rosterFor(arg.framework, arg.mode))
    /\ loadSession = ret

\* the session holds what process p added: its note or its feature
has(session, p) ==
  \/ \E i \in DOMAIN session.notes : includes(session.notes[i], p)
  \/ \E i \in DOMAIN session.features : session.features[i].name = <<p>>

bothDone == \A p \in Procs : procs[p].pc = "done"

\* C14: when both processes are done, the file holds what the one that saved
\* last added; it holds what the other added exactly when that one had saved
\* before the last one loaded, and has lost it when both loaded before either
\* saved.
C14_LastWriterWins ==
  bothDone =>
    \A l \in {loadSession}, first \in Procs \ {arg} :
      /\ truthy(l)
      /\ has(l.v, arg)
      /\ has(l.v, first) <=> first \in procs[arg].before

\* both processes loaded before either saved, both have saved, and what the
\* first one added is not in the file
C14_Witness ==
  /\ bothDone
  /\ \A p \in Procs : procs[p].before = {}
  /\ \E first \in Procs \ {arg} : ~has(loadSession.v, first)

\* the frameworks whose predicate is true on the project, as places in the
\* fixed order
PriorityOrder ==
  <<"tauri", "electron", "nextjs", "laravel", "rails", "fastapi", "automation">>

matching(root) ==
  {i \in DOMAIN PriorityOrder : FRAMEWORK_DETECTORS(PriorityOrder[i], root)}

\* C15: when the predicates of two or more frameworks are true, detectFramework
\* returns the one that comes first in the order tauri, electron, nextjs,
\* laravel, rails, fastapi, automation, and every file it reports is of the
\* detection list of that framework.
C15_DetectionPriority ==
  (lastOp = "detectFramework" /\ Cardinality(matching(project)) >= 2) =>
    /\ ret.framework = PriorityOrder[Min(matching(project))]
    /\ \A i \in DOMAIN ret.matchedFiles :
         /\ includes(FRAMEWORK_CONFIGS[ret.framework].detection, ret.matchedFiles[i])
         /\ fileExists(project, ret.matchedFiles[i])

\* detection has run on a project where rails and a later framework match
C15_Witness ==
  /\ lastOp = "detectFramework"
  /\ ret.framework = "rails"
  /\ Cardinality(matching(project)) >= 2
  /\ Len(ret.matchedFiles) >= 3

\* C16: combineRules returns the agents given; without them the fullMode or
\* default roster of the framework, and without a framework the four-agent
\* minimal roster in full mode and yoom-bot alone otherwise.
C16_AgentRoster ==
  lastOp = "combineRules" =>
    ret.agents =
      (IF agentsOf(arg) # Null THEN agentsOf(arg).v
       ELSE IF arg.framework # "null"
       THEN IF fullModeOf(arg) THEN FRAMEWORK_CONFIGS[arg.framework].agents.fullMode
            ELSE FRAMEWORK_CONFIGS[arg.framework].agents.default
       ELSE IF fullModeOf(arg)
       THEN <<"yoom-bot", "code-reviewer", "tester", "git-committer">>
       ELSE <<"yoom-bot">>)

\* the manifest is missing or is no JSON
unusable(root, path) == ~fileExists(root, path) \/ ~root.contents[path].json

\* C17: detectFramework returns a result for every project; a package.json or
\* composer.json that is missing or no JSON counts as without the dependency and
\* the frameworks after it are still tried; when no predicate is true the
\* result is framework null, confidence 0 and no matched file.
C17_DetectionNeverFails ==
  lastOp = "detectFramework" =>
    /\ ret.framework \in DOMAIN FRAMEWORK_CONFIGS \cup {"null"}
    /\ unusable(project, "package.json") =>
         /\ ret.framework = "electron" =>
              \E f \in {"electron-builder.json", "electron-builder.yml",
                        "electron.vite.config.ts"} : fileExists(project, f)
         /\ ret.framework = "nextjs" =>
              \E f \in {"next.config.js", "next.config.mjs", "next.config.ts"} :
                fileExists(project, f)
    /\ unusable(project, "composer.json") => ret.framework # "laravel"
    /\ matching(project) # {} => ret.framework = PriorityOrder[Min(matching(project))]
    /\ matching(project) = {} =>
         ret = [framework |-> "null", confidence |-> 0, matchedFiles |-> <<>>]

\* detection went past a package.json that is no JSON and found a framework
\* further down the order
C17_Witness ==
  /\ lastOp = "detectFramework"
  /\ fileExists(project, "package.json")
  /\ ~project.contents["package.json"].json
  /\ ret.framework = "automation"

RECURSIVE sumOfPoints(_)
sumOfPoints(catalog) ==
  IF catalog = <<>> THEN 0 ELSE catalog[1].points + sumOfPoints(Tail(catalog))

\* the common catalog followed by the catalog of the framework
catalogOf(framework) ==
  IF framework = "null" THEN CommonCatalog
  ELSE CommonCatalog \o FRAMEWORK_DEDUCTIONS[framework]

\* C18: combineRules returns the common catalog followed by the catalog of the
\* framework, getTotalDeductionPoints the sum of the points of that catalog,
\* after any calls in any order; the shared common catalog does not change.
C18_DeductionCatalog ==
  /\ commonDeductions = CommonCatalog
  /\ lastOp = "combineRules" => ret.deductions = catalogOf(arg.framework)
  /\ lastOp = "getTotalDeductionPoints" => ret = sumOfPoints(catalogOf(arg.framework))

\* the total of tauri has been computed: the 100 points of the common
\* catalog and the 55 of tauri
C18_Witness ==
  /\ lastOp = "getTotalDeductionPoints"
  /\ arg.framework = "tauri"
  /\ ret = 155

\* the step a status may take in one operation: none, pending to in_progress
\* for the feature the operation makes the current one, in_progress to completed
lifecycle(before, after, i) ==
  \/ after.features[i].status = before.features[i].status
  \/ /\ before.features[i].status = "pending"
     /\ after.features[i].status = "in_progress"
     /\ after.currentFeatureIndex = i - 1
     /\ before.currentFeatureIndex # i - 1
  \/ /\ before.features[i].status = "in_progress"
     /\ after.features[i].status = "completed"

\* C19: in every operation the status of a feature stays, goes from pending to
\* in_progress as the feature becomes the current one, or goes from
\* in_progress to completed; a completed feature stays completed.
C19_StatusLifecycle ==
  [][(lastOp' \in {"updateSession", "completeCurrentStep", "startNextFeature"}
      /\ file' # file) =>
       \A before \in {loadSession}, after \in {loadFrom(file', readable')} :
         (truthy(before) /\ truthy(after)) =>
           \A i \in DOMAIN before.v.features :
             lifecycle(before.v, after.v, i)]_vars

\* the feature as addFeature stores it: what the caller supplied, no step
\* completed
asSupplied(stored, f) ==
  /\ stored.name = f.name
  /\ stored.description = f.description
  /\ stored.status = f.status
  /\ currentStepOf(stored) = currentStepOf(f)
  /\ stored.notes = f.notes
  /\ stored.completedSteps = <<>>

\* the session after addFeature of f on the session before
added(before, after, f) ==
  /\ Len(after.features) = Len(before.features) + 1
  /\ asSupplied(after.features[Len(after.features)], f)
  /\ SubSeq(after.features, 1, Len(before.features)) = before.features
  /\ after.currentFeatureIndex =
       (IF before.features = <<>> THEN 0 ELSE before.currentFeatureIndex)

\* C20: updateSession with addFeature alone appends the feature as supplied,
\* with no step completed; the index of the current feature becomes 0 when
\* there was no feature, and stays with all existing features when there were.
C20_AddFeature ==
  [][lastOp' = "updateSession" =>
       \A before \in {loadSession} :
         truthy(before) =>
           \A f \in NewFeatures :
             (/\ file' = updateSession(before, [addFeature |-> f]).file
              /\ ret' = updateSession(before, [addFeature |-> f]).ret)
             => /\ added(before.v, ret'.v, f)
                /\ added(before.v, JSONparseSession(file'.data), f)]_vars

\* a second feature was added in_progress at DEVELOP; the first one is still
\* the current one
C20_Witness ==
  /\ lastOp = "updateSession"
  /\ ret.t = "session"
  /\ Len(ret.v.features) = 2
  /\ ret.v.features[2].status = "in_progress"
  /\ currentStepOf(ret.v.features[2]) = "DEVELOP"
  /\ ret.v.features[1].status = "pending"
  /\ ret.v.currentFeatureIndex = 0

\* the entries of the detection list of a framework that exist in the project
present(root, framework) ==
  {i \in DOMAIN FRAMEWORK_CONFIGS[framework].detection :
     fileExists(root, FRAMEWORK_CONFIGS[framework].detection[i])}

\* C21: when detectFramework returns a framework, confidence is 1.0 exactly
\* when two or more entries of its detection list exist, and otherwise 0.8 with
\* exactly one matched file.
C21_Confidence ==
  (lastOp = "detectFramework" /\ ret.framework # "null") =>
    /\ ret.confidence = 10 <=> Cardinality(present(project, ret.framework)) >= 2
    /\ ret.confidence # 10 => (ret.confidence = 8 /\ Len(ret.matchedFiles) = 1)

\* C22: updateSession, completeCurrentStep and startNextFeature, when they
\* succeed, set lastActivityAt to the current time, which is not earlier than
\* the lastActivityAt before nor than createdAt; when they return null the
\* file, lastActivityAt with it, is unchanged.
C22_LastActivity ==
  [][(lastOp' \in {"updateSession", "completeCurrentStep", "startNextFeature"}
      /\ clock' = clock) =>
       \A before \in {loadSession} :
         /\ ret' = Null => file' = file
         /\ (ret' # Null /\ truthy(before)) =>
              \A after \in {ret'.v, JSONparseSession(file'.data)} :
                /\ after.lastActivityAt = ISO(clock)
                /\ Instant(after.lastActivityAt) >= Instant(before.v.lastActivityAt)
                /\ Instant(after.lastActivityAt) >= Instant(after.createdAt)]_vars

\* a step was completed at a later instant than the session was created
C22_Witness ==
  /\ lastOp = "completeCurrentStep"
  /\ ret # Null
  /\ ret.v.createdAt = ISO(0)
  /\ ret.v.lastActivityAt = ISO(1)
  /\ loadSession = Session(ret.v)

\* the list after starts with the list before
grown(before, after) ==
  /\ Len(after) >= Len(before)
  /\ SubSeq(after, 1, Len(before)) = before

\* C23: in every operation other than createSession the notes of the session
\* and the notes of each feature keep their entries in place and only grow at
\* the end.
C23_NotesAppendOnly ==
  [][(lastOp' \in {"updateSession", "completeCurrentStep", "startNextFeature"}
      /\ file' # file) =>
       \A before \in {loadSession}, after \in {loadFrom(file', readable')} :
         (truthy(before) /\ truthy(after)) =>
           /\ grown(before.v.notes, after.v.notes)
           /\ \A i \in DOMAIN before.v.features :
                grown(before.v.features[i].notes, after.v.features[i].notes)]_vars

\* the parts of a session that are set at creation
fixedAtCreation(session) ==
  [config |-> session.config, version |-> session.version,
   createdAt |-> session.createdAt]

\* C24: updateSession, completeCurrentStep and startNextFeature leave config,
\* version and createdAt of the session as they were.
C24_ConfigIsFixed ==
  [][(lastOp' \in {"updateSession", "completeCurrentStep", "startNextFeature"}
      /\ ret' # Null) =>
       \A before \in {loadSession} :
         truthy(before) =>
           \A after \in {ret'.v, JSONparseSession(file'.data)} :
             fixedAtCreation(after) = fixedAtCreation(before.v)]_vars

\* a feature was started at a later instant than the session was created
C24_Witness ==
  /\ lastOp = "startNextFeature"
  /\ ret # Null
  /\ ret.v.createdAt = ISO(0)
  /\ ret.v.lastActivityAt = ISO(1)
  /\ ret.v.config.framework = "nextjs"
  /\ loadSession = Session(ret.v)

\* l is a loaded session all of whose features, at least one, are completed
allCompleted(l) ==
  /\ truthy(l)
  /\ Len(l.v.features) >= 1
  /\ \A i \in DOMAIN l.v.features : l.v.features[i].status = "completed"

\* l is a loaded session with a feature that is still pending
somePending(l) ==
  /\ truthy(l)
  /\ \E i \in DOMAIN l.v.features : l.v.features[i].status = "pending"

\* C25: workflow completion. Once pending features were added to a created
\* session, the driver (startNextFeature when the current feature has no
\* currentStep, completeCurrentStep otherwise) eventually brings every
\* feature to status completed: none is skipped or left pending forever.
C25_WorkflowCompletes == somePending(loadSession) ~> allCompleted(loadSession)

\* the indexes of the features of session s that are in_progress
active(s) == {i \in 0..(Len(s.features) - 1) : At(s.features, i).status = "in_progress"}

\* C26: at most one active feature. After any sequence of startNextFeature
\* and completeCurrentStep on a session whose features were all added
\* pending, at most one feature is in_progress and it is the feature at
\* currentFeatureIndex: no feature is left in_progress out of the reach of
\* completeCurrentStep.
C26_OneActiveFeature ==
  \A l \in {loadSession} :
    truthy(l) => active(l.v) \subseteq {l.v.currentFeatureIndex}

\* the roster the rule composer resolves for the name and the mode
composed(framework, mode) ==
  combineRules(getFrameworkConfig(framework), Null, mode = "full").result.agents

\* C27: the session module and the rule composer resolve the same roster.
\* For every registered framework name and for a name that is not registered,
\* in both modes, getAgentsForFramework(f, mode) equals
\* combineRules(getFrameworkConfig(f), null, mode = full).agents.
C27_SameRoster ==
  (lastOp = "getAgentsForFramework" /\ arg.framework \notin Inherited) =>
    ret = Array(composed(arg.framework, arg.mode))

\* C28: the next step chosen by completeCurrentStep is
\* getNextStep(currentStep) for every currentStep a loaded session can hold,
\* also one that is not in FEATURE_STEP_ORDER, such as DESIGN: the feature
\* is then completed, not moved to DEVELOP.
C28_NextStepIsGetNextStep ==
  [][(lastOp' = "completeCurrentStep" /\ clock' = clock /\ ret' # Null) =>
       \A before \in {loadSession} :
         \A step \in {current(before).currentStep} :
           /\ ret'.nextStep = getNextStep(step)
           /\ ret'.featureCompleted = (getNextStep(step) = "null")
           /\ getNextStep(step) = "null" =>
                At(ret'.v.features, before.v.currentFeatureIndex).status = "completed"]_vars

\* C29: hasExistingSession agrees with loadSession. In every file state,
\* also after the file was damaged by hand, hasExistingSession(cwd) is true
\* exactly when loadSession(cwd) returns a session; after deleteSession,
\* called once or again, both report no session.
C29_ExistsIffLoads ==
  /\ hasExistingSession <=> truthy(loadSession)
  /\ lastOp = "deleteSession" => (~hasExistingSession /\ loadSession = Null)

\* C30: createSession does not preserve or merge an existing session. Called
\* on a directory that holds a valid session, it writes the file anew:
\* loadSession afterwards returns exactly the session just created, without
\* features, notes or discovery and with currentFeatureIndex -1.
C30_CreateOverwrites ==
  [][(lastOp' = "createSession" /\ clock' = clock /\ truthy(loadSession)) =>
       /\ ret'.t = "session"
       /\ ret'.v.features = <<>>
       /\ ret'.v.currentFeatureIndex = -1
       /\ ret'.v.notes = <<>>
       /\ "discovery" \notin DOMAIN ret'.v
       /\ ret'.v.createdAt = ISO(clock)
       /\ ret'.v.lastActivityAt = ISO(clock)
       /\ JSONparseSession(file'.data) = ret'.v
       /\ loadFrom(file', readable') = ret']_vars

\* a session was created again, with the other options, over a session that
\* had features and notes (CreateAgain is the only step that passes them)
C30_Witness ==
  /\ lastOp = "createSession"
  /\ ret.t = "session"
  /\ ret.v.config.framework = Recreated.framework
  /\ ret.v.features = <<>>
  /\ ret.v.notes = <<>>
  /\ loadSession = ret

====
